---- MODULE Spec2Model ----
(***************************************************************************)
(* Model of the alexios voice-skill webhook (package main, app.webhook)    *)
(* and of the message/user store it calls.  Strings that the handler       *)
(* parses are sequences of one-character strings; opaque strings (user     *)
(* identifiers, time zone names, fixed reply sentences) stay TLA+ strings. *)
(***************************************************************************)
EXTENDS Integers, Sequences, FiniteSets, TLC

VARIABLES users, msgs, served, pc, req, loc, resp, calls

vars == <<users, msgs, served, pc, req, loc, resp, calls>>

(***************************************************************************)
(* Bounds of the model.                                                    *)
(***************************************************************************)
NumProcs == 2
MaxRequests == 2
MaxInputLen == 5

Procs == 1..NumProcs

(***************************************************************************)
(* Program constants.                                                      *)
(***************************************************************************)
StatusOK == 200
StatusBadRequest == 400
StatusMethodNotAllowed == 405
StatusUnprocessableEntity == 422
StatusInternalServerError == 500
Epoch == 1000

(***************************************************************************)
(* Go string primitives used by the parsers.                               *)
(***************************************************************************)
Digits == {"0", "1", "2", "3", "4", "5", "6", "7", "8", "9"}

DigitVal(c) ==
    CASE c = "0" -> 0 [] c = "1" -> 1 [] c = "2" -> 2 [] c = "3" -> 3
      [] c = "4" -> 4 [] c = "5" -> 5 [] c = "6" -> 6 [] c = "7" -> 7
      [] c = "8" -> 8 [] c = "9" -> 9

\* strings.HasPrefix(s, prefix)
HasPrefix(s, prefix) ==
    /\ Len(s) >= Len(prefix)
    /\ SubSeq(s, 1, Len(prefix)) = prefix

\* strings.Index(s, " "), 1-based; 0 when s holds no space
IndexSpace(s) ==
    IF \E i \in 1..Len(s) : s[i] = " "
    THEN CHOOSE i \in 1..Len(s) : s[i] = " " /\ \A j \in 1..(i - 1) : s[j] # " "
    ELSE 0

\* strings.SplitN(s, " ", n) for n >= 1: at most n parts, the last one is
\* the unsplit remainder
RECURSIVE SplitN(_, _)
SplitN(s, n) ==
    IF n <= 1 \/ IndexSpace(s) = 0
    THEN <<s>>
    ELSE LET i == IndexSpace(s)
         IN  <<SubSeq(s, 1, i - 1)>> \o SplitN(SubSeq(s, i + 1, Len(s)), n - 1)

\* strings.Split(s, " "): every space separates
Split(s) == SplitN(s, Len(s) + 1)

\* value of a non-empty run of decimal digits
RECURSIVE DecimalValue(_)
DecimalValue(ds) ==
    IF Len(ds) = 0 THEN 0
    ELSE 10 * DecimalValue(SubSeq(ds, 1, Len(ds) - 1)) + DigitVal(ds[Len(ds)])

\* strconv.Atoi(s): optional sign, then one or more decimal digits; anything
\* else is an error (the range error needs 19 digits, more than any input
\* of the model carries)
Atoi(s) ==
    LET signed == Len(s) > 0 /\ s[1] \in {"+", "-"}
        ds == IF signed THEN SubSeq(s, 2, Len(s)) ELSE s
        syntaxOK == Len(ds) > 0 /\ \A i \in 1..Len(ds) : ds[i] \in Digits
        mag == IF syntaxOK THEN DecimalValue(ds) ELSE 0
        val == IF signed /\ s[1] = "-" THEN 0 - mag ELSE mag
    IN  IF syntaxOK
        THEN [err |-> FALSE, val |-> val]
        ELSE [err |-> TRUE, val |-> 0]

(***************************************************************************)
(* Command parsers.                                                        *)
(***************************************************************************)
parseSendCommandFirstWord(command) ==
    LET parts == Split(command)
    IN  IF Len(parts) < 3
        THEN [username |-> <<>>, message |-> <<>>]
        ELSE [username |-> parts[2], message |-> parts[3]]

parseSendCommand(command) ==
    LET parts == SplitN(command, 3)
    IN  IF Len(parts) < 3
        THEN [username |-> <<>>, message |-> <<>>]
        ELSE [username |-> parts[2], message |-> parts[3]]

parseReadCommandOneBased(command) ==
    LET parts == Split(command)
    IN  IF Len(parts) < 2 THEN -1
        ELSE LET r == Atoi(parts[2])
             IN  IF r.err \/ r.val < 1 THEN -1 ELSE r.val

parseReadCommand(command) ==
    LET parts == Split(command)
    IN  IF Len(parts) < 2 THEN -1
        ELSE LET r == Atoi(parts[2])
             IN  IF r.err \/ r.val < 1 THEN -1 ELSE r.val - 1

parseRegisterCommand(command) ==
    LET parts == SplitN(command, 3)
    IN  IF Len(parts) < 3 THEN <<>> ELSE parts[3]

(***************************************************************************)
(* Inputs: the utterances, identity tokens and time zone names that the    *)
(* requests of the model carry.                                            *)
(***************************************************************************)
cSend == <<"S", "e", "n", "d", " ", "a", " ", "h", " ", "i">>
cSendShort == <<"S", "e", "n", "d", " ", "a">>
cRead == <<"R", "e", "a", "d">>
cRead0 == <<"R", "e", "a", "d", " ", "0">>
cRead1 == <<"R", "e", "a", "d", " ", "1">>
cRead2 == <<"R", "e", "a", "d", " ", "2">>
cRead3 == <<"R", "e", "a", "d", " ", "3">>
cReadX == <<"R", "e", "a", "d", " ", "x">>
cSignUpA == <<"S", "i", "g", "n", " ", "U", "p", " ", "a">>
cSignUp == <<"S", "i", "g", "n", " ", "U", "p">>
cHello == <<"h", "i">>

Commands ==
    {cSend, cSendShort, cRead0, cRead1, cRead2, cSignUpA, cSignUp, cHello}

UserIDs == {"u1", "u2"}

TypeSimpleUtterance == "SimpleUtterance"

\* time.LoadLocation(name): "" and "UTC" name UTC, "Local" the local zone;
\* a name absent from the zone database is an error
KnownLocations == {"", "UTC", "Local"}

LoadLocationAlwaysOK(name) == [err |-> FALSE]

LoadLocation(name) == [err |-> name \notin KnownLocations]

MkRequest(method, bodyOK, type, command, userID, new, timezone) ==
    [method |-> method, bodyOK |-> bodyOK, type |-> type, command |-> command,
     userID |-> userID, new |-> new, timezone |-> timezone]

NoRequest == MkRequest("", FALSE, "", <<>>, "", FALSE, "")

\* the requests a caller may post: the three rejected shapes, every command
\* from every caller, and the session/time-zone variants
Requests ==
    {MkRequest("GET", TRUE, TypeSimpleUtterance, cHello, "u1", FALSE, "UTC"),
     MkRequest("POST", FALSE, "", <<>>, "", FALSE, ""),
     MkRequest("POST", TRUE, "ButtonPressed", cHello, "u1", FALSE, "UTC")}
    \cup {MkRequest("POST", TRUE, TypeSimpleUtterance, c, u, FALSE, "UTC") :
            c \in Commands, u \in UserIDs}
    \cup {MkRequest("POST", TRUE, TypeSimpleUtterance, cHello, u, TRUE, tz) :
            u \in UserIDs, tz \in {"UTC", "Mars/Phobos"}}

(***************************************************************************)
(* The store: user bindings and messages.  msgs holds every saved message  *)
(* in save order together with the mailbox (Rcpt) it was saved to.         *)
(***************************************************************************)
ErrNone == "nil"
ErrConflict == "conflict"
ErrNotFound == "notFound"
ErrStore == "storeError"

\* store.Message
Message(id, sender, time, payload) ==
    [ID |-> id, Sender |-> sender, Time |-> time, Payload |-> payload]

NoMessage == Message(0, "", 0, <<>>)

\* FindRecepient: the identity bound to username
FindRecepient(username) ==
    IF \E u \in users : u.name = username
    THEN [err |-> ErrNone, userID |-> (CHOOSE u \in users : u.name = username).id]
    ELSE [err |-> ErrNotFound, userID |-> ""]

RECURSIVE MailboxOf(_, _)
MailboxOf(all, userID) ==
    IF Len(all) = 0 THEN <<>>
    ELSE LET m == all[Len(all)]
             rest == MailboxOf(SubSeq(all, 1, Len(all) - 1), userID)
         IN  IF m.Rcpt = userID
             THEN Append(rest, Message(m.ID, m.Sender, m.Time, m.Payload))
             ELSE rest

\* ListMessages: the mailbox of userID in insertion order
ListMessages(userID) == MailboxOf(msgs, userID)

\* GetMessage: the message with identifier id
GetMessage(id) ==
    IF \E i \in 1..Len(msgs) : msgs[i].ID = id
    THEN LET m == msgs[CHOOSE i \in 1..Len(msgs) : msgs[i].ID = id]
         IN  [err |-> ErrNone, msg |-> Message(m.ID, m.Sender, m.Time, m.Payload)]
    ELSE [err |-> ErrNotFound, msg |-> NoMessage]

\* SaveMessage: append to the mailbox of userID under the next identifier
SaveMessage(userID, msg) ==
    Append(msgs, [ID |-> Len(msgs) + 1, Sender |-> msg.Sender, Time |-> msg.Time,
                  Payload |-> msg.Payload, Rcpt |-> userID])

\* RegisterUser: one atomic check-and-insert; the username must be unbound
\* and the identity must not carry a username yet
RegisterUser(userID, username) ==
    IF \E u \in users : u.name = username \/ u.id = userID
    THEN [err |-> ErrConflict, users |-> users]
    ELSE [err |-> ErrNone, users |-> users \cup {[id |-> userID, name |-> username]}]

(***************************************************************************)
(* Handler state.                                                          *)
(***************************************************************************)
\* time.Now(): a clock that ticks with every request received
Now == Epoch + served

NoLocals ==
    [branch |-> "none", username |-> <<>>, message |-> <<>>, recepientID |-> "",
     messageIndex |-> 0, messages |-> <<>>, messageID |-> 0]

NoResponse == [status |-> 0, text |-> <<>>, body |-> FALSE, panicked |-> FALSE]

\* w.WriteHeader(status); return
Abort(status) == [status |-> status, text |-> <<>>, body |-> FALSE, panicked |-> FALSE]

\* the response envelope is encoded, which sends status 200
Reply(text) == [status |-> StatusOK, text |-> text, body |-> TRUE, panicked |-> FALSE]

\* a run-time panic unwinds the handler; nothing is written
Panic == [status |-> 0, text |-> <<>>, body |-> FALSE, panicked |-> TRUE]

Call(op, res) == [op |-> op, res |-> res]

\* what the database may hold when the handler is constructed: nothing, a
\* registered user, or a registered user with one message waiting
InitialStores ==
    {[users |-> {}, msgs |-> <<>>],
     [users |-> {[id |-> "u1", name |-> <<"a">>]}, msgs |-> <<>>],
     [users |-> {[id |-> "u1", name |-> <<"a">>]},
      msgs |-> <<[ID |-> 1, Sender |-> "u2", Time |-> Epoch - 1,
                  Payload |-> <<"y", "o">>, Rcpt |-> "u1"]>>]}

Init ==
    /\ \E s \in InitialStores : users = s.users /\ msgs = s.msgs
    /\ served = 0
    /\ pc = [p \in Procs |-> "idle"]
    /\ req = [p \in Procs |-> NoRequest]
    /\ loc = [p \in Procs |-> NoLocals]
    /\ resp = [p \in Procs |-> NoResponse]
    /\ calls = [p \in Procs |-> <<>>]

(***************************************************************************)
(* app.webhook, one action per store call.                                 *)
(***************************************************************************)
BranchLoose(command) ==
    CASE HasPrefix(command, <<"S">>) -> "send"
      [] HasPrefix(command, <<"R", "e", "a", "d">>) -> "read"
      [] HasPrefix(command, <<"S", "i", "g", "n", " ", "U", "p">>) -> "signup"
      [] OTHER -> "default"

\* switch true { case strings.HasPrefix(...): ... }: the first case that holds
Branch(command) ==
    IF HasPrefix(command, <<"S", "e", "n", "d">>) THEN "send"
    ELSE IF HasPrefix(command, <<"R", "e", "a", "d">>) THEN "read"
    ELSE IF HasPrefix(command, <<"S", "i", "g", "n", " ", "U", "p">>) THEN "signup"
    ELSE "default"

FirstPC(branch) ==
    CASE branch = "send" -> "send_find"
      [] branch = "read" -> "read_list"
      [] branch = "signup" -> "signup"
      [] branch = "default" -> "default"

\* the locals the selected branch computes before its first store call
Parsed(command) ==
    LET b == Branch(command)
    IN  [NoLocals EXCEPT
           !.branch = b,
           !.username = IF b = "send" THEN parseSendCommand(command).username
                        ELSE IF b = "signup" THEN parseRegisterCommand(command)
                        ELSE <<>>,
           !.message = IF b = "send" THEN parseSendCommand(command).message ELSE <<>>,
           !.messageIndex = IF b = "read" THEN parseReadCommand(command) ELSE 0]

\* method, body and type checks, then the switch and the branch's parser.
\* The handler goroutines are interchangeable, so a goroutine that has not
\* served yet starts only after those of lower index.
ReceiveFrom(p, rs) ==
    /\ pc[p] \in {"idle", "done"}
    /\ \A q \in 1..(p - 1) : pc[q] # "idle"
    /\ served < MaxRequests
    /\ \E r \in rs :
         /\ served' = served + 1
         /\ calls' = [calls EXCEPT ![p] = <<>>]
         /\ IF r.method # "POST"
            THEN /\ req' = [req EXCEPT ![p] = r]
                 /\ resp' = [resp EXCEPT ![p] = Abort(StatusMethodNotAllowed)]
                 /\ loc' = [loc EXCEPT ![p] = NoLocals]
                 /\ pc' = [pc EXCEPT ![p] = "done"]
            ELSE IF ~r.bodyOK
            THEN /\ req' = [req EXCEPT ![p] = r]
                 /\ resp' = [resp EXCEPT ![p] = Abort(StatusBadRequest)]
                 /\ loc' = [loc EXCEPT ![p] = NoLocals]
                 /\ pc' = [pc EXCEPT ![p] = "done"]
            ELSE IF r.type # TypeSimpleUtterance
            THEN /\ req' = [req EXCEPT ![p] = r]
                 /\ resp' = [resp EXCEPT ![p] = Abort(StatusUnprocessableEntity)]
                 /\ loc' = [loc EXCEPT ![p] = NoLocals]
                 /\ pc' = [pc EXCEPT ![p] = "done"]
            ELSE /\ req' = [req EXCEPT ![p] = r]
                 /\ resp' = [resp EXCEPT ![p] = NoResponse]
                 /\ loc' = [loc EXCEPT ![p] = Parsed(r.command)]
                 /\ pc' = [pc EXCEPT ![p] = FirstPC(Branch(r.command))]
    /\ UNCHANGED <<users, msgs>>

Receive(p) == ReceiveFrom(p, Requests)

\* a store call fails: 500 and return
Fail(p, op) ==
    /\ calls' = [calls EXCEPT ![p] = Append(@, Call(op, ErrStore))]
    /\ resp' = [resp EXCEPT ![p] = Abort(StatusInternalServerError)]
    /\ pc' = [pc EXCEPT ![p] = "done"]

SendFindIgnoringError(p) ==
    /\ pc[p] = "send_find"
    /\ \E fail \in BOOLEAN :
         LET r == FindRecepient(loc[p].username)
         IN  /\ calls' = [calls EXCEPT ![p] =
                            Append(@, Call("FindRecepient", IF fail THEN ErrStore ELSE r.err))]
             /\ loc' = [loc EXCEPT ![p].recepientID = IF fail THEN "" ELSE r.userID]
             /\ pc' = [pc EXCEPT ![p] = "send_save"]
             /\ UNCHANGED resp
    /\ UNCHANGED <<users, msgs, served, req>>

\* Send: FindRecepient(username)
SendFind(p) ==
    /\ pc[p] = "send_find"
    /\ \E fail \in BOOLEAN :
         LET r == FindRecepient(loc[p].username)
         IN  IF fail
             THEN Fail(p, "FindRecepient") /\ UNCHANGED loc
             ELSE IF r.err # ErrNone
             THEN /\ calls' = [calls EXCEPT ![p] = Append(@, Call("FindRecepient", r.err))]
                  /\ resp' = [resp EXCEPT ![p] = Abort(StatusInternalServerError)]
                  /\ pc' = [pc EXCEPT ![p] = "done"]
                  /\ UNCHANGED loc
             ELSE /\ calls' = [calls EXCEPT ![p] = Append(@, Call("FindRecepient", ErrNone))]
                  /\ loc' = [loc EXCEPT ![p].recepientID = r.userID]
                  /\ pc' = [pc EXCEPT ![p] = "send_save"]
                  /\ UNCHANGED resp
    /\ UNCHANGED <<users, msgs, served, req>>

\* Send: SaveMessage(recepientID, Message{Sender, time.Now(), Payload}), reply
SendSave(p) ==
    /\ pc[p] = "send_save"
    /\ \E fail \in BOOLEAN :
         IF fail
         THEN Fail(p, "SaveMessage") /\ UNCHANGED msgs
         ELSE /\ msgs' = SaveMessage(loc[p].recepientID,
                                     Message(0, req[p].userID, Now, loc[p].message))
              /\ calls' = [calls EXCEPT ![p] = Append(@, Call("SaveMessage", ErrNone))]
              /\ resp' = [resp EXCEPT ![p] = Reply(<<"The message was sent successfully.">>)]
              /\ pc' = [pc EXCEPT ![p] = "done"]
    /\ UNCHANGED <<users, served, req, loc>>

\* fmt.Sprintf("Message from %s, was sent at %s: %s", Sender, Time, Payload)
MessageTextNoPayload(message) ==
    <<"Message from %s, was sent at %s: %s", message.Sender, message.Time, <<>>>>

MessageText(message) ==
    <<"Message from %s, was sent at %s: %s", message.Sender, message.Time, message.Payload>>

\* Read: ListMessages(caller), the bounds test and messages[messageIndex]
ReadList(p) ==
    /\ pc[p] = "read_list"
    /\ \E fail \in BOOLEAN :
         LET messages == ListMessages(req[p].userID)
             messageIndex == loc[p].messageIndex
         IN  IF fail
             THEN Fail(p, "ListMessages") /\ UNCHANGED loc
             ELSE /\ calls' = [calls EXCEPT ![p] = Append(@, Call("ListMessages", ErrNone))]
                  /\ IF Len(messages) < messageIndex
                     THEN /\ resp' = [resp EXCEPT ![p] = Reply(<<"There is no such a message.">>)]
                          /\ loc' = [loc EXCEPT ![p].messages = messages]
                          /\ pc' = [pc EXCEPT ![p] = "done"]
                     ELSE IF messageIndex < 0 \/ messageIndex >= Len(messages)
                     THEN \* index out of range
                          /\ resp' = [resp EXCEPT ![p] = Panic]
                          /\ loc' = [loc EXCEPT ![p].messages = messages]
                          /\ pc' = [pc EXCEPT ![p] = "done"]
                     ELSE /\ loc' = [loc EXCEPT ![p].messages = messages,
                                                ![p].messageID = messages[messageIndex + 1].ID]
                          /\ pc' = [pc EXCEPT ![p] = "read_get"]
                          /\ UNCHANGED resp
    /\ UNCHANGED <<users, msgs, served, req>>

\* Read: GetMessage(messageID), reply with the rendered message
ReadGet(p) ==
    /\ pc[p] = "read_get"
    /\ \E fail \in BOOLEAN :
         LET r == GetMessage(loc[p].messageID)
         IN  IF fail
             THEN Fail(p, "GetMessage")
             ELSE IF r.err # ErrNone
             THEN /\ calls' = [calls EXCEPT ![p] = Append(@, Call("GetMessage", r.err))]
                  /\ resp' = [resp EXCEPT ![p] = Abort(StatusInternalServerError)]
                  /\ pc' = [pc EXCEPT ![p] = "done"]
             ELSE /\ calls' = [calls EXCEPT ![p] = Append(@, Call("GetMessage", ErrNone))]
                  /\ resp' = [resp EXCEPT ![p] = Reply(MessageText(r.msg))]
                  /\ pc' = [pc EXCEPT ![p] = "done"]
    /\ UNCHANGED <<users, msgs, served, req, loc>>

SignUpTextAlwaysSuccess(err, username) ==
    <<"You have successfully been registered as %s", username>>

\* the Sign Up reply: the confirmation, replaced by the apology on ErrConflict
SignUpText(err, username) ==
    IF err = ErrConflict
    THEN <<"Sorry, this name has already been used. Try another name.">>
    ELSE <<"You have successfully been registered as %s", username>>

SignUpConflictIsError(p) ==
    /\ pc[p] = "signup"
    /\ \E fail \in BOOLEAN :
         LET r == RegisterUser(req[p].userID, loc[p].username)
         IN  IF fail
             THEN Fail(p, "RegisterUser") /\ UNCHANGED users
             ELSE /\ users' = r.users
                  /\ calls' = [calls EXCEPT ![p] = Append(@, Call("RegisterUser", r.err))]
                  /\ IF r.err # ErrNone
                     THEN resp' = [resp EXCEPT ![p] = Abort(StatusInternalServerError)]
                     ELSE resp' = [resp EXCEPT ![p] = Reply(SignUpText(r.err, loc[p].username))]
                  /\ pc' = [pc EXCEPT ![p] = "done"]
    /\ UNCHANGED <<msgs, served, req, loc>>

\* Sign Up: RegisterUser(caller, username), reply
SignUp(p) ==
    /\ pc[p] = "signup"
    /\ \E fail \in BOOLEAN :
         LET r == RegisterUser(req[p].userID, loc[p].username)
         IN  IF fail
             THEN Fail(p, "RegisterUser") /\ UNCHANGED users
             ELSE /\ users' = r.users
                  /\ calls' = [calls EXCEPT ![p] = Append(@, Call("RegisterUser", r.err))]
                  /\ IF r.err # ErrNone /\ r.err # ErrConflict
                     THEN resp' = [resp EXCEPT ![p] = Abort(StatusInternalServerError)]
                     ELSE resp' = [resp EXCEPT ![p] = Reply(SignUpText(r.err, loc[p].username))]
                  /\ pc' = [pc EXCEPT ![p] = "done"]
    /\ UNCHANGED <<msgs, served, req, loc>>

\* the status sentence of the default branch
CountText(n) ==
    IF n > 0 THEN <<"There are %d new messages.", n>>
    ELSE <<"There is no new messages for you.">>

\* now.Clock() of a clock that counts minutes
Hour(t) == (t \div 60) % 24

Minute(t) == t % 60

\* default: ListMessages(caller), the count, and on a new session the time
Default(p) ==
    /\ pc[p] = "default"
    /\ \E fail \in BOOLEAN :
         LET messages == ListMessages(req[p].userID)
             text == CountText(Len(messages))
         IN  IF fail
             THEN Fail(p, "ListMessages") /\ UNCHANGED loc
             ELSE /\ calls' = [calls EXCEPT ![p] = Append(@, Call("ListMessages", ErrNone))]
                  /\ loc' = [loc EXCEPT ![p].messages = messages]
                  /\ pc' = [pc EXCEPT ![p] = "done"]
                  /\ IF req[p].new
                     THEN IF LoadLocation(req[p].timezone).err
                          THEN resp' = [resp EXCEPT ![p] = Abort(StatusBadRequest)]
                          ELSE resp' = [resp EXCEPT ![p] =
                                          Reply(<<"Exact time %d hours, %d minutes. %s",
                                                  Hour(Now), Minute(Now), text>>)]
                     ELSE resp' = [resp EXCEPT ![p] = Reply(text)]
    /\ UNCHANGED <<users, msgs, served, req>>

Next ==
    \E p \in Procs :
        \/ Receive(p)
        \/ SendFind(p)
        \/ SendSave(p)
        \/ ReadList(p)
        \/ ReadGet(p)
        \/ SignUp(p)
        \/ Default(p)

Spec == Init /\ [][Next]_vars

(***************************************************************************)
(* Two registrations of one username racing on an empty store.             *)
(***************************************************************************)
cSignUpAB == <<"S", "i", "g", "n", " ", "U", "p", " ", "a", " ", "b">>

RaceCommands == {cSignUpA, cSignUp, cSignUpAB}

RaceRequests ==
    {MkRequest("POST", TRUE, TypeSimpleUtterance, c, u, new, "UTC") :
       c \in RaceCommands, u \in UserIDs, new \in BOOLEAN}

InitRace ==
    /\ users = {}
    /\ msgs = <<>>
    /\ served = 2
    /\ \E r1 \in RaceRequests, r2 \in RaceRequests :
         /\ r1.userID # r2.userID
         /\ parseRegisterCommand(r1.command) = parseRegisterCommand(r2.command)
         /\ req = [p \in Procs |-> IF p = 1 THEN r1 ELSE IF p = 2 THEN r2 ELSE NoRequest]
    /\ pc = [p \in Procs |-> IF p \in {1, 2} THEN FirstPC(Branch(req[p].command)) ELSE "idle"]
    /\ loc = [p \in Procs |-> IF p \in {1, 2} THEN Parsed(req[p].command) ELSE NoLocals]
    /\ resp = [p \in Procs |-> NoResponse]
    /\ calls = [p \in Procs |-> <<>>]

NextRace == \E p \in Procs : SignUp(p)

SpecRace == InitRace /\ [][NextRace]_vars

(***************************************************************************)
(* parseReadCommand applied to every short command string.                 *)
(***************************************************************************)
ParseAlphabet == {"x", " ", "0", "1", "7", "-", "+"}

ParseInputs ==
    UNION {[1..n -> ParseAlphabet] : n \in 0..MaxInputLen}
    \cup {cRead, cRead0, cRead1, cRead2, cRead3, cReadX}

InitParse ==
    /\ users = {}
    /\ msgs = <<>>
    /\ served = 1
    /\ \E c \in ParseInputs :
         req = [p \in Procs |->
                  IF p = 1
                  THEN MkRequest("POST", TRUE, TypeSimpleUtterance, c, "u1", FALSE, "UTC")
                  ELSE NoRequest]
    /\ pc = [p \in Procs |-> IF p = 1 THEN "parse" ELSE "idle"]
    /\ loc = [p \in Procs |-> NoLocals]
    /\ resp = [p \in Procs |-> NoResponse]
    /\ calls = [p \in Procs |-> <<>>]

ParseRead(p) ==
    /\ pc[p] = "parse"
    /\ loc' = [loc EXCEPT ![p].messageIndex = parseReadCommand(req[p].command)]
    /\ pc' = [pc EXCEPT ![p] = "parsed"]
    /\ UNCHANGED <<users, msgs, served, req, resp, calls>>

NextParse == \E p \in Procs : ParseRead(p)

SpecParse == InitParse /\ [][NextParse]_vars

(***************************************************************************)
(* Properties.                                                             *)
(***************************************************************************)
Accepted(p) == loc[p].branch # "none"

Done(p) == pc[p] = "done"

Ops(p) == [i \in 1..Len(calls[p]) |-> calls[p][i].op]

ListedOK(p) == Len(calls[p]) >= 1 /\ calls[p][1] = Call("ListMessages", ErrNone)

NotFoundTexts == {<<"There is no such a message.">>, <<"There is no new messages for you.">>}

\* the second space-separated segment of c, described by its position
HasSecondSegment(c) == \E i \in 1..Len(c) : c[i] = " "

SecondSegment(c) ==
    LET i == CHOOSE k \in 1..Len(c) : c[k] = " " /\ \A j \in 1..(k - 1) : c[j] # " "
        stops == {k \in (i + 1)..Len(c) : c[k] = " "} \cup {Len(c) + 1}
        j == CHOOSE k \in stops : \A l \in stops : k <= l
    IN  [k \in 1..(j - i - 1) |-> c[i + k]]

\* seg is a decimal integer literal: an optional sign and at least one digit
IsInteger(seg) ==
    \E from \in 1..2 :
        /\ from = 2 => (Len(seg) >= 1 /\ seg[1] \in {"+", "-"})
        /\ Len(seg) >= from
        /\ \A k \in from..Len(seg) : seg[k] \in Digits

IntegerValue(seg) ==
    IF seg[1] = "-" THEN 0 - DecimalValue(SubSeq(seg, 2, Len(seg)))
    ELSE IF seg[1] = "+" THEN DecimalValue(SubSeq(seg, 2, Len(seg)))
    ELSE DecimalValue(seg)

\* C10: parseReadCommand returns N-1 exactly when the command has a second
\* space-separated segment that is an integer N >= 1, and -1 otherwise; so a
\* successful result is never negative, "Read 3" gives 2 and "Read 0" gives -1.
ParseReadResult ==
    \A p \in Procs :
        pc[p] = "parsed" =>
            LET c == req[p].command
                r == loc[p].messageIndex
                valid == /\ HasSecondSegment(c)
                         /\ IsInteger(SecondSegment(c))
                         /\ IntegerValue(SecondSegment(c)) >= 1
            IN  /\ valid => (r = IntegerValue(SecondSegment(c)) - 1 /\ r >= 0)
                /\ ~valid => r = -1
                /\ c = cRead3 => r = 2
                /\ c = cRead0 => r = -1

ParseReadWitness ==
    \E p \in Procs :
        /\ pc[p] = "parsed"
        /\ req[p].command = <<"x", " ", "1", "7", " ">>
        /\ loc[p].messageIndex = 16

\* C4: two registrations of one username by different identities racing on
\* an empty store never both get the confirmation; when neither meets a
\* store failure exactly one gets the confirmation and the other the
\* apology; and a username is never bound to two identities.
SuccessReply(p) ==
    /\ resp[p].status = StatusOK
    /\ resp[p].text = <<"You have successfully been registered as %s", loc[p].username>>

ConflictReply(p) ==
    /\ resp[p].status = StatusOK
    /\ resp[p].text = <<"Sorry, this name has already been used. Try another name.">>

SignUpOutcome ==
    \A p \in Procs :
        (Done(p) /\ Accepted(p) /\ loc[p].branch = "signup") =>
            /\ Len(calls[p]) = 1
            /\ calls[p][1].op = "RegisterUser"
            /\ req[p].command = cSignUpA => loc[p].username = <<"a">>
            /\ calls[p][1].res = ErrNone =>
                 resp[p] = Reply(<<"You have successfully been registered as %s",
                                   loc[p].username>>)
            /\ calls[p][1].res = ErrConflict =>
                 resp[p] = Reply(<<"Sorry, this name has already been used. Try another name.">>)
            /\ calls[p][1].res \notin {ErrNone, ErrConflict} =>
                 resp[p] = Abort(StatusInternalServerError)

SignUpConflictWitness ==
    \E p \in Procs :
        /\ Done(p)
        /\ loc[p].branch = "signup"
        /\ calls[p] = <<Call("RegisterUser", ErrConflict)>>
        /\ resp[p].status = StatusOK
        /\ resp[p].body

\* the utterance that asks for position k
ReadCommandFor(k) ==
    CASE k = 1 -> cRead1 [] k = 2 -> cRead2 [] k = 3 -> cRead3 [] OTHER -> <<"?">>

\* what follows the second space of a send utterance
BodyOf(c) == IF c = cSend THEN <<"h", " ", "i">> ELSE <<>>

\* C6: after a successful Send of body b from caller s to recipient r, the
\* mailbox of r holds at some position k a message with sender s and payload
\* b, and every completed "Read k" of r replies with sender s, the stored
\* time and exactly b.
SendReadRoundTrip ==
    \A p \in Procs :
        (Done(p) /\ loc[p].branch = "send" /\ resp[p].status = StatusOK) =>
            LET r == loc[p].recepientID
                s == req[p].userID
                b == BodyOf(req[p].command)
                box == ListMessages(r)
            IN  \E k \in 1..Len(box) :
                    /\ box[k].Sender = s
                    /\ box[k].Payload = b
                    /\ \A q \in Procs :
                         (/\ Done(q)
                          /\ req[q].userID = r
                          /\ req[q].command = ReadCommandFor(k)
                          /\ Ops(q) = <<"ListMessages", "GetMessage">>
                          /\ calls[q][2].res = ErrNone)
                         => resp[q] = Reply(<<"Message from %s, was sent at %s: %s",
                                              s, box[k].Time, b>>)

RoundTripWitness ==
    \E p \in Procs, q \in Procs :
        /\ Done(p) /\ loc[p].branch = "send" /\ resp[p].status = StatusOK
        /\ req[p].command = cSend
        /\ Done(q) /\ req[q].userID = loc[p].recepientID
        /\ req[q].command = ReadCommandFor(Len(ListMessages(loc[p].recepientID)))
        /\ resp[q].status = StatusOK
        /\ Len(resp[q].text) = 4
        /\ resp[q].text[2] = req[p].userID
        /\ resp[q].text[4] = <<"h", " ", "i">>

\* C7: a store call that fails with anything but the conflict is the last
\* store call of its request, and the request ends at once with status 500
\* and no body.
StoreFailureEndsRequest ==
    \A p \in Procs :
        \A i \in 1..Len(calls[p]) :
            calls[p][i].res \notin {ErrNone, ErrConflict} =>
                /\ i = Len(calls[p])
                /\ Done(p)
                /\ resp[p] = Abort(StatusInternalServerError)

StoreFailureWitness ==
    \E p \in Procs :
        /\ Done(p)
        /\ calls[p] = <<Call("FindRecepient", ErrNotFound)>>
        /\ resp[p].status = StatusInternalServerError

BadTimezone(p) ==
    /\ Done(p)
    /\ loc[p].branch = "default"
    /\ req[p].new
    /\ req[p].timezone = "Mars/Phobos"

\* C8 as claimed: every default-branch request of a new session with an
\* unparseable time zone ends with status 400 and no body.
BadTimezoneAlways400 ==
    \A p \in Procs : BadTimezone(p) => resp[p] = Abort(StatusBadRequest)

\* C8 as amended: such a request ends with status 400 and no body when its
\* ListMessages call succeeded.
BadTimezone400AfterList ==
    \A p \in Procs :
        (BadTimezone(p) /\ ListedOK(p)) => resp[p] = Abort(StatusBadRequest)

BadTimezoneWitness ==
    \E p \in Procs :
        /\ BadTimezone(p)
        /\ ListedOK(p)
        /\ resp[p].status = StatusBadRequest
        /\ ~resp[p].body

MatchesSend(c) == Len(c) >= 4 /\ <<c[1], c[2], c[3], c[4]>> = <<"S", "e", "n", "d">>

MatchesRead(c) == Len(c) >= 4 /\ <<c[1], c[2], c[3], c[4]>> = <<"R", "e", "a", "d">>

MatchesSignUp(c) ==
    /\ Len(c) >= 7
    /\ <<c[1], c[2], c[3], c[4], c[5], c[6], c[7]>> = <<"S", "i", "g", "n", " ", "U", "p">>

FirstMatch(c) ==
    IF MatchesSend(c) THEN "send"
    ELSE IF MatchesRead(c) THEN "read"
    ELSE IF MatchesSignUp(c) THEN "signup"
    ELSE "default"

BranchOps(b) ==
    CASE b = "send" -> <<"FindRecepient", "SaveMessage">>
      [] b = "read" -> <<"ListMessages", "GetMessage">>
      [] b = "signup" -> <<"RegisterUser">>
      [] b = "default" -> <<"ListMessages">>

BranchPCs(b) ==
    CASE b = "send" -> {"send_find", "send_save", "done"}
      [] b = "read" -> {"read_list", "read_get", "done"}
      [] b = "signup" -> {"signup", "done"}
      [] b = "default" -> {"default", "done"}

OneBranch ==
    \A p \in Procs :
        Accepted(p) =>
            LET c == req[p].command
                b == FirstMatch(c)
            IN  /\ loc[p].branch = b
                /\ pc[p] \in BranchPCs(b)
                /\ Cardinality({t \in {1, 2, 3} :
                                  \/ t = 1 /\ MatchesSend(c)
                                  \/ t = 2 /\ MatchesRead(c)
                                  \/ t = 3 /\ MatchesSignUp(c)}) <= 1
                /\ Len(Ops(p)) <= Len(BranchOps(b))
                /\ Ops(p) = SubSeq(BranchOps(b), 1, Len(Ops(p)))

ReadOnlyStep ==
    \A p \in Procs :
        (FirstMatch(req[p].command) \in {"read", "default"} /\ Accepted(p)
         /\ (pc'[p] # pc[p] \/ calls'[p] # calls[p]))
        => (users' = users /\ msgs' = msgs)

\* C9: an accepted request runs the one branch whose prefix test is the
\* first to match its command, at most one of the three tests matches, its
\* store calls are those of that branch in order, and no step of a Read or
\* default request changes a user binding or a mailbox.
BranchSelection == []OneBranch /\ [][ReadOnlyStep]_vars

BranchWitness ==
    \E p \in Procs :
        /\ Done(p)
        /\ FirstMatch(req[p].command) = "read"
        /\ Ops(p) = <<"ListMessages", "GetMessage">>
        /\ resp[p].status = StatusOK

\* C1: a "Read N" request, N >= 1, whose ListMessages call succeeded on a
\* mailbox of fewer than N messages ends with a 200 "not found" reply and
\* without a panic.
ReadBeyondMailboxIsNotFound ==
    \A p \in Procs :
        (/\ Done(p)
         /\ loc[p].branch = "read"
         /\ ListedOK(p)
         /\ loc[p].messageIndex >= 0
         /\ Len(loc[p].messages) < loc[p].messageIndex + 1)
        => /\ ~resp[p].panicked
           /\ resp[p].status = StatusOK
           /\ resp[p].text \in NotFoundTexts

\* C2: a Read request whose index parsed to the invalid sentinel, and whose
\* ListMessages call succeeded, ends with a 200 "no message" reply whatever
\* the mailbox holds, and GetMessage is not called.
InvalidIndexIsNoMessage ==
    \A p \in Procs :
        (/\ Done(p)
         /\ loc[p].branch = "read"
         /\ ListedOK(p)
         /\ loc[p].messageIndex = -1)
        => /\ ~resp[p].panicked
           /\ resp[p].status = StatusOK
           /\ resp[p].text \in NotFoundTexts
           /\ \A i \in 1..Len(calls[p]) : calls[p][i].op # "GetMessage"

\* C3: a Send command of fewer than three segments never reaches
\* SaveMessage, whatever FindRecepient answers for the empty username, and
\* no message with an empty payload enters a mailbox.
MalformedSendNeverSaves ==
    /\ \A i \in 1..Len(msgs) : msgs[i].Payload # <<>>
    /\ \A p \in Procs :
         (loc[p].branch = "send" /\ req[p].command = cSendShort) =>
             \A i \in 1..Len(calls[p]) : calls[p][i].op # "SaveMessage"

====
